---- MODULE Spec2Model ----
(***************************************************************************)
(* Model of api/nowpayments-webhook.js: the NOWPayments IPN webhook        *)
(* handler.  One invocation of the exported async handler is a state       *)
(* machine: the synchronous prefix (method guard, signature check, status  *)
(* filter, margin split, issuing the ShipEngine request) is one step, and  *)
(* every await (label request, customer mail, admin mail) resolves or      *)
(* rejects in a step of its own.                                           *)
(*                                                                         *)
(* Money: `amount` is held in thousandths of the currency unit, `margin`   *)
(* and `labelAmount` (results of toFixed(2)) in hundredths.                *)
(***************************************************************************)
EXTENDS Integers, Sequences, FiniteSets

VARIABLES
    secret,         \* process.env.NOW_IPN_SECRET
    req,            \* the incoming request: method, signature header, body
    pc,             \* where the handler is
    res,            \* HTTP status sent with res.status(..).send(..); 0 = none yet
    verifyCalls,    \* number of verifyNowSignature invocations
    calls,          \* outbound calls in issue order (axios.post, sendMail)
    status,         \* String(status) as tested on line 69
    customerEmail,  \* line 64
    amount,         \* line 62 (thousandths)
    margin,         \* line 75 (hundredths)
    labelAmount,    \* line 76 (hundredths)
    seResp,         \* line 109: seResp.data once the label request resolved
    labelUrl        \* line 117

vars == <<secret, req, pc, res, verifyCalls, calls, status, customerEmail,
          amount, margin, labelAmount, seResp, labelUrl>>

----------------------------------------------------------------------------
(* Bounds of the model *)

\* largest number of top-level keys in a request body
MaxKeys == 3

\* amounts 0.001 .. MaxAmount/1000 are enumerated for the margin split
MaxAmount == 1200

----------------------------------------------------------------------------
(* JavaScript values *)

Str(s) == [type |-> "string", s |-> s, n |-> 0]
Num(n) == [type |-> "number", s |-> "", n |-> n]
\* a one-element array [s]
Arr1(s) == [type |-> "array", s |-> s, n |-> 0]
Undefined == [type |-> "undefined", s |-> "", n |-> 0]
Null == [type |-> "null", s |-> "", n |-> 0]

\* NaN, as a number no amount of the model equals
NaN == -1

\* ToBoolean, as used by || and ?:
Truthy(v) ==
    CASE v.type = "string" -> v.s # ""
      [] v.type = "number" -> v.n # 0 /\ v.n # NaN
      [] v.type = "array" -> TRUE
      [] OTHER -> FALSE

\* a || b
Or(a, b) == IF Truthy(a) THEN a ELSE b

\* String(v).  An array is its elements joined by ","; the text of a number
\* is never one of the status words, so it is not spelled out.
ToString(v) ==
    CASE v.type = "string" -> v.s
      [] v.type = "array" -> v.s
      [] v.type = "undefined" -> "undefined"
      [] v.type = "null" -> "null"
      [] OTHER -> "<number>"

\* parseFloat(v): the number itself; a text without leading digits is NaN
ParseFloat(v) == IF v.type = "number" THEN v.n ELSE NaN

----------------------------------------------------------------------------
(* Request bodies *)

\* the keys the handler reads, in ascending UTF-16 order
KeyOrder ==
    <<"amount", "buyer_email", "customer_email", "payment_status",
      "price_amount", "status">>

Keys == {KeyOrder[i] : i \in 1..Len(KeyOrder)}

\* position of key k in the ascending order
KeyRank(k) == CHOOSE i \in 1..Len(KeyOrder) : KeyOrder[i] = k

BuyerAddr == "buyer@example.com"
CustomerAddr == "customer@example.com"

\* values a provider (or a forger) may put under each key; price_amount
\* is enumerated separately, for the margin split
FieldValues(k) ==
    CASE k = "status" ->
            {Str("finished"), Str("confirmed"), Str("waiting"), Arr1("finished")}
      [] k = "payment_status" -> {Str("finished")}
      [] k = "price_amount" -> {}
      [] k = "amount" -> {Num(50000)}
      [] k = "buyer_email" -> {Str(BuyerAddr)}
      [] k = "customer_email" -> {Str(CustomerAddr)}

Members == {[k |-> key, v |-> val] : key \in Keys, val \in UNION {FieldValues(k) : k \in Keys}}

Member == {m \in Members : m.v \in FieldValues(m.k)}

DistinctKeys(ms) == \A i, j \in 1..Len(ms) : i # j => ms[i].k # ms[j].k

\* member lists of an object, in insertion order
MemberLists(n) ==
    {ms \in UNION {[1..l -> Member] : l \in 0..n} : DistinctKeys(ms)}

Object(ms) == [kind |-> "object", members |-> ms]
NoBody == [kind |-> "undefined", members |-> <<>>]
NullBody == [kind |-> "null", members |-> <<>>]

Bodies == {NoBody, NullBody} \cup {Object(ms) : ms \in MemberLists(MaxKeys)}

\* payload[key]
Get(payload, key) ==
    IF \E i \in 1..Len(payload.members) : payload.members[i].k = key
    THEN payload.members[CHOOSE i \in 1..Len(payload.members) :
                            payload.members[i].k = key].v
    ELSE Undefined

----------------------------------------------------------------------------
(* JSON text: a sequence of tokens *)

Tok(t, k, v) == [t |-> t, k |-> k, v |-> v]
Punct(t) == Tok(t, "", Undefined)

RECURSIVE StringifyMembers(_)
StringifyMembers(ms) ==
    IF ms = <<>> THEN <<>>
    ELSE <<Tok("key", ms[1].k, Undefined), Punct(":"), Tok("value", "", ms[1].v)>>
         \o (IF Len(ms) = 1 THEN <<>> ELSE <<Punct(",")>>)
         \o StringifyMembers(Tail(ms))

\* JSON.stringify(value): members in the object's own order.
\* JSON.stringify(undefined) is undefined, which JSON.parse reads as the
\* text "undefined".
JsonStringify(body) ==
    CASE body.kind = "undefined" -> <<Punct("undefined")>>
      [] body.kind = "null" -> <<Punct("null")>>
      [] OTHER -> <<Punct("{")>> \o StringifyMembers(body.members) \o <<Punct("}")>>

\* number of members announced by a text of n tokens: "{" "}" and, per
\* member, key : value, separated by ","
MemberCount(n) == IF n = 2 THEN 0 ELSE (n - 1) \div 4

WellFormedObject(text) ==
    LET n == Len(text)
        c == MemberCount(n)
    IN  /\ n >= 2
        /\ text[1].t = "{"
        /\ text[n].t = "}"
        /\ n = (IF c = 0 THEN 2 ELSE 4 * c + 1)
        /\ \A i \in 1..c :
              /\ text[4 * i - 2].t = "key"
              /\ text[4 * i - 1].t = ":"
              /\ text[4 * i].t = "value"
              /\ (i < c => text[4 * i + 1].t = ",")

\* JSON.parse(text): ok = FALSE stands for the SyntaxError it throws
JsonParse(text) ==
    IF text = <<Punct("null")>> THEN [ok |-> TRUE, value |-> NullBody]
    ELSE IF WellFormedObject(text)
    THEN [ok |-> TRUE,
          value |-> Object([i \in 1..MemberCount(Len(text)) |->
                             [k |-> text[4 * i - 2].k, v |-> text[4 * i].v]])]
    ELSE [ok |-> FALSE, value |-> NoBody]

----------------------------------------------------------------------------
(* verifyNowSignature *)

\* Object.keys(obj)
ObjectKeys(obj) == [i \in 1..Len(obj.members) |-> obj.members[i].k]

RECURSIVE InsertKey(_, _)
InsertKey(k, sorted) ==
    IF sorted = <<>> THEN <<k>>
    ELSE IF KeyRank(k) <= KeyRank(sorted[1]) THEN <<k>> \o sorted
    ELSE <<sorted[1]>> \o InsertKey(k, Tail(sorted))

RECURSIVE SortFrom(_, _)
SortFrom(ks, sorted) ==
    IF ks = <<>> THEN sorted ELSE SortFrom(Tail(ks), InsertKey(ks[1], sorted))

\* a mis-sort: the keys stay in their original order
SortKeysUnsorted(ks) == ks

\* Array.prototype.sort() with the default comparator
SortKeys(ks) == SortFrom(ks, <<>>)

\* sortedKeys.forEach(k => { sortedObj[k] = obj[k]; })
SortedObj(obj) ==
    LET sortedKeys == SortKeys(ObjectKeys(obj))
    IN  Object([i \in 1..Len(sortedKeys) |->
                  [k |-> sortedKeys[i], v |-> Get(obj, sortedKeys[i])]])

\* lines 27-30: the text the digest is taken over
CanonicalJson(obj) == JsonStringify(SortedObj(obj))

\* the hex digest of HMAC-SHA512 under `key` over `text`; distinct
\* (key, text) give distinct digests
Hmac(key, text) == [empty |-> FALSE, key |-> key, text |-> text]

\* the empty string
EmptyString == [empty |-> TRUE, key |-> "", text |-> <<>>]

\* a variant whose catch block accepts
VerifyFailOpen(rawBody, headerSig) ==
    LET parsed == JsonParse(rawBody)
    IN  IF ~parsed.ok \/ parsed.value.kind # "object" THEN TRUE
        ELSE Hmac(secret, CanonicalJson(parsed.value)) = headerSig

\* lines 22-39.  A SyntaxError of JSON.parse and the TypeError of
\* Object.keys(null) are caught and give false.
verifyNowSignature(rawBody, headerSig) ==
    LET parsed == JsonParse(rawBody)
    IN  IF ~parsed.ok THEN FALSE
        ELSE IF parsed.value.kind # "object" THEN FALSE
        ELSE LET jsonString == CanonicalJson(parsed.value)
                 digest == Hmac(secret, jsonString)
             IN  digest = headerSig

----------------------------------------------------------------------------
(* The requests the handler may receive *)

\* the secret NOWPayments signs with, configured as NOW_IPN_SECRET
ProviderKey == "ipn-secret"

AdminAddr == "admin@example.com"

\* NOWPayments' signing rule (comment on lines 23-24): the members in
\* ascending key order, stringified, HMAC-SHA512 under the signer's key
ProviderSign(key, body) ==
    LET present == {body.members[i].k : i \in 1..Len(body.members)}
        ks == SelectSeq(KeyOrder, LAMBDA k : k \in present)
    IN  Hmac(key, JsonStringify(Object([i \in 1..Len(ks) |->
                                          [k |-> ks[i], v |-> Get(body, ks[i])]])))

\* the body with its last member dropped: what was signed before a field
\* was added in transit
Untampered(body) ==
    IF body.members = <<>> THEN body
    ELSE Object(SubSeq(body.members, 1, Len(body.members) - 1))

\* req.headers['x-nowpayments-sig'] of a request without that header
NoHeader == [empty |-> TRUE, key |-> "undefined", text |-> <<>>]

\* header values sent with body b: none, the provider's signature, a
\* signature under the empty key, one over the text as sent (unsorted),
\* and one made for the body before tampering
Signatures(b) ==
    IF b.kind # "object" THEN {NoHeader, Hmac(ProviderKey, JsonStringify(b))}
    ELSE {NoHeader,
          ProviderSign(ProviderKey, b),
          ProviderSign("", b),
          Hmac(ProviderKey, JsonStringify(b)),
          ProviderSign(ProviderKey, Untampered(b))}

Methods == {"POST", "GET"}

----------------------------------------------------------------------------
(* Handler locals *)

\* line 42 guard, negated
MethodAllowedOrGet(m) == m \in {"POST", "GET"}

MethodAllowed(m) == m = "POST"

\* line 48: the header, '' when absent
HeaderSig(r) == IF r.sig = NoHeader THEN EmptyString ELSE r.sig

\* line 60
StatusOf(payload) == Or(Get(payload, "status"), Get(payload, "payment_status"))

\* line 69
Accepted(st) == ToString(st) \in {"finished", "confirmed"}

\* line 62
AmountOf(payload) ==
    ParseFloat(Or(Or(Get(payload, "price_amount"), Get(payload, "amount")), Num(0)))

\* prefers customer_email over buyer_email
CustomerEmailSwapped(payload) ==
    Or(Or(Get(payload, "customer_email"), Get(payload, "buyer_email")), Str(""))

\* line 64
CustomerEmailOf(payload) ==
    Or(Or(Get(payload, "buyer_email"), Get(payload, "customer_email")), Str(""))

\* x.toFixed(2) for x >= 0 given in units of 0.0001, result in hundredths.
\* A decimal tie (..5 in the third place) has no exact binary double, so
\* the double nearest to it may lie on either side: tieUp says which.
ToFixed2(x, tieUp) ==
    IF x = NaN THEN NaN
    ELSE LET q == x \div 100
             r == x % 100
         IN  IF r > 50 \/ (r = 50 /\ tieUp) THEN q + 1 ELSE q

\* line 75: +(total * 0.10).toFixed(2); total in thousandths, so
\* total * 0.10 is `total` units of 0.0001
Margin(total, tieUp) == ToFixed2(total, tieUp)

\* the label amount taken as 90% of the total instead of the remainder
LabelAmountNinety(total, m, tieUp) ==
    IF total = NaN THEN NaN ELSE ToFixed2(9 * total, tieUp)

\* line 76: +(total - margin).toFixed(2)
LabelAmount(total, m, tieUp) ==
    IF total = NaN \/ m = NaN THEN NaN ELSE ToFixed2(10 * (total - 10 * m), tieUp)

----------------------------------------------------------------------------
(* Outbound calls *)

LabelEndpoint == "https://api.shipengine.com/v1/labels"

\* line 109: axios.post(.., shipmentData, ..), not yet settled
LabelCall ==
    [kind |-> "label", to |-> Str(LabelEndpoint), subject |-> "",
     text |-> "", url |-> "", result |-> "pending"]

\* line 117
LabelUrlOf(data) == Or(Or(data.href, data.pdf_url), Null)

\* the link text whether or not there is a link
SuccessMailAlwaysLink(email, url) ==
    [kind |-> "mail", to |-> Or(email, Str(AdminAddr)),
     subject |-> "Je verzendlabel", text |-> "Hier is je label: ",
     url |-> ToString(url), result |-> "pending"]

\* lines 120-127
SuccessMail(email, url) ==
    [kind |-> "mail", to |-> Or(email, Str(AdminAddr)),
     subject |-> "Je verzendlabel",
     text |-> IF Truthy(url) THEN "Hier is je label: "
                             ELSE "Label is aangemaakt, maar link ontbreekt.",
     url |-> IF Truthy(url) THEN url.s ELSE "",
     result |-> "pending"]

\* lines 134-139
AdminMail ==
    [kind |-> "mail", to |-> Str(AdminAddr), subject |-> "Fout bij order",
     text |-> "Er ging iets mis bij order", url |-> "", result |-> "pending"]

\* the last call issued settles with `outcome`
Settle(cs, outcome) == [cs EXCEPT ![Len(cs)].result = outcome]

HrefUrl == "https://api.shipengine.com/v1/downloads/label.pdf"
PdfUrl == "https://cdn.shipengine.com/label.pdf"

\* a response without either shape (also the value of seResp before the
\* request resolves)
NoData == [href |-> Undefined, pdf_url |-> Undefined]

\* seResp.data: each of the two shapes present or not
ResponseData ==
    {[href |-> h, pdf_url |-> p] :
        h \in {Undefined, Str(HrefUrl)}, p \in {Undefined, Str(PdfUrl)}}

----------------------------------------------------------------------------
(* The handler *)

Idle(r, key) ==
    /\ secret = key
    /\ req = r
    /\ pc = "start"
    /\ res = 0
    /\ verifyCalls = 0
    /\ calls = <<>>
    /\ status = ""
    /\ customerEmail = Str("")
    /\ amount = 0
    /\ margin = 0
    /\ labelAmount = 0
    /\ seResp = NoData
    /\ labelUrl = Undefined

Init ==
    \E b \in Bodies, m \in Methods :
        \E s \in Signatures(b) :
            Idle([method |-> m, sig |-> s, body |-> b], ProviderKey)

\* line 42
RejectMethod ==
    /\ pc = "start"
    /\ ~MethodAllowed(req.method)
    /\ res' = 405
    /\ pc' = "done"
    /\ UNCHANGED <<secret, req, verifyCalls, calls, status, customerEmail,
                   amount, margin, labelAmount, seResp, labelUrl>>

\* lines 48-56
RejectSignature ==
    /\ pc = "start"
    /\ MethodAllowed(req.method)
    /\ ~verifyNowSignature(JsonStringify(req.body), HeaderSig(req))
    /\ verifyCalls' = verifyCalls + 1
    /\ res' = 400
    /\ pc' = "done"
    /\ UNCHANGED <<secret, req, calls, status, customerEmail,
                   amount, margin, labelAmount, seResp, labelUrl>>

\* lines 48-71: signature good, status not finished/confirmed
IgnoreStatus ==
    /\ pc = "start"
    /\ MethodAllowed(req.method)
    /\ verifyNowSignature(JsonStringify(req.body), HeaderSig(req))
    /\ ~Accepted(StatusOf(req.body))
    /\ verifyCalls' = verifyCalls + 1
    /\ status' = ToString(StatusOf(req.body))
    /\ amount' = AmountOf(req.body)
    /\ customerEmail' = CustomerEmailOf(req.body)
    /\ res' = 200
    /\ pc' = "done"
    /\ UNCHANGED <<secret, req, calls, margin, labelAmount, seResp, labelUrl>>

\* lines 48-115: signature good, status accepted; the split is computed
\* and the label request is issued
RequestLabel ==
    /\ pc = "start"
    /\ MethodAllowed(req.method)
    /\ verifyNowSignature(JsonStringify(req.body), HeaderSig(req))
    /\ Accepted(StatusOf(req.body))
    /\ verifyCalls' = verifyCalls + 1
    /\ status' = ToString(StatusOf(req.body))
    /\ amount' = AmountOf(req.body)
    /\ customerEmail' = CustomerEmailOf(req.body)
    /\ \E tieM, tieL \in BOOLEAN :
          /\ margin' = Margin(amount', tieM)
          /\ labelAmount' = LabelAmount(amount', margin', tieL)
    /\ calls' = <<LabelCall>>
    /\ pc' = "awaitLabel"
    /\ UNCHANGED <<secret, req, res, seResp, labelUrl>>

\* lines 109-127: the label request resolves; the customer mail is issued
LabelResolves ==
    /\ pc = "awaitLabel"
    /\ \E data \in ResponseData :
          /\ seResp' = data
          /\ labelUrl' = LabelUrlOf(data)
          /\ calls' = Append(Settle(calls, "ok"), SuccessMail(customerEmail, labelUrl'))
    /\ pc' = "awaitMail"
    /\ UNCHANGED <<secret, req, res, verifyCalls, status, customerEmail,
                   amount, margin, labelAmount>>

\* a catch block that answers 500 without mailing the administrator
LabelRejectsUnreported ==
    /\ pc = "awaitLabel"
    /\ calls' = Settle(calls, "failed")
    /\ res' = 500
    /\ pc' = "done"
    /\ UNCHANGED <<secret, req, verifyCalls, status, customerEmail,
                   amount, margin, labelAmount, seResp, labelUrl>>

\* lines 109, 131-139: the label request throws or times out; the catch
\* block issues the admin mail
LabelRejects ==
    /\ pc = "awaitLabel"
    /\ calls' = Append(Settle(calls, "failed"), AdminMail)
    /\ pc' = "awaitAdminMail"
    /\ UNCHANGED <<secret, req, res, verifyCalls, status, customerEmail,
                   amount, margin, labelAmount, seResp, labelUrl>>

\* lines 121-130
MailResolves ==
    /\ pc = "awaitMail"
    /\ calls' = Settle(calls, "ok")
    /\ res' = 200
    /\ pc' = "done"
    /\ UNCHANGED <<secret, req, verifyCalls, status, customerEmail,
                   amount, margin, labelAmount, seResp, labelUrl>>

\* lines 121, 131-139: the customer mail rejects inside the try block, so
\* the same catch block issues the admin mail
MailRejects ==
    /\ pc = "awaitMail"
    /\ calls' = Append(Settle(calls, "failed"), AdminMail)
    /\ pc' = "awaitAdminMail"
    /\ UNCHANGED <<secret, req, res, verifyCalls, status, customerEmail,
                   amount, margin, labelAmount, seResp, labelUrl>>

\* lines 134-140
AdminMailResolves ==
    /\ pc = "awaitAdminMail"
    /\ calls' = Settle(calls, "ok")
    /\ res' = 500
    /\ pc' = "done"
    /\ UNCHANGED <<secret, req, verifyCalls, status, customerEmail,
                   amount, margin, labelAmount, seResp, labelUrl>>

\* line 134: the admin mail rejects inside the catch block; nothing
\* catches it, the handler's promise rejects and line 140 is not reached
AdminMailRejects ==
    /\ pc = "awaitAdminMail"
    /\ calls' = Settle(calls, "failed")
    /\ pc' = "rejected"
    /\ UNCHANGED <<secret, req, res, verifyCalls, status, customerEmail,
                   amount, margin, labelAmount, seResp, labelUrl>>

Next ==
    \/ RejectMethod
    \/ RejectSignature
    \/ IgnoreStatus
    \/ RequestLabel
    \/ LabelResolves
    \/ LabelRejects
    \/ MailResolves
    \/ MailRejects
    \/ AdminMailResolves
    \/ AdminMailRejects

Spec == Init /\ [][Next]_vars

----------------------------------------------------------------------------
(* The margin split on its own: a signed "finished" notification for every *)
(* amount 0.001 .. MaxAmount/1000 and for 100.00, taken up to the point    *)
(* where margin and labelAmount are computed.                              *)

Amounts == (1..MaxAmount) \cup {100000}

PaidBody(n) ==
    Object(<<[k |-> "status", v |-> Str("finished")],
             [k |-> "price_amount", v |-> Num(n)]>>)

SplitInit ==
    \E n \in Amounts :
        Idle([method |-> "POST",
              sig |-> ProviderSign(ProviderKey, PaidBody(n)),
              body |-> PaidBody(n)], ProviderKey)

SplitNext == RequestLabel

SplitSpec == SplitInit /\ [][SplitNext]_vars

----------------------------------------------------------------------------
(* Vocabulary of the properties *)

\* the handler has run to its end: it responded, or its promise rejected
Finished == pc \in {"done", "rejected"}

Issued(kind, subject) ==
    {i \in 1..Len(calls) : calls[i].kind = kind /\ calls[i].subject = subject}

NumLabelCalls == Cardinality(Issued("label", ""))
NumSuccessMails == Cardinality(Issued("mail", "Je verzendlabel"))
NumAdminMails == Cardinality(Issued("mail", "Fout bij order"))

SomeCallFailed == \E i \in 1..Len(calls) : calls[i].result = "failed"

\* the header carries the digest the provider's rule gives for this body
\* under the configured secret
ValidlySigned(r) ==
    /\ r.body.kind = "object"
    /\ r.sig = ProviderSign(secret, r.body)

\* payload.status, else payload.payment_status, is one of the two words
StatusIsPaid(r) ==
    \/ Truthy(Get(r.body, "status"))
       /\ Get(r.body, "status") \in {Str("finished"), Str("confirmed")}
    \/ ~Truthy(Get(r.body, "status"))
       /\ Get(r.body, "payment_status") \in {Str("finished"), Str("confirmed")}

\* the buyer's address, else the customer's, else the administrator's
ExpectedRecipient(r) ==
    IF Get(r.body, "buyer_email") # Undefined THEN Get(r.body, "buyer_email")
    ELSE IF Get(r.body, "customer_email") # Undefined
    THEN Get(r.body, "customer_email")
    ELSE Str(AdminAddr)

\* the orderings of n members
Perms(n) == {f \in [1..n -> 1..n] : \A i, j \in 1..n : i # j => f[i] # f[j]}

Reordered(body, f) == Object([i \in 1..Len(body.members) |-> body.members[f[i]]])

OutOfOrder(body) ==
    \E i, j \in 1..Len(body.members) :
        i < j /\ KeyRank(body.members[i].k) > KeyRank(body.members[j].k)

Abs(x) == IF x < 0 THEN -x ELSE x

----------------------------------------------------------------------------
(* C1 *)

SuccessMailFailed ==
    \E i \in Issued("mail", "Je verzendlabel") : calls[i].result = "failed"

SuccessMailDelivered ==
    \E i \in Issued("mail", "Je verzendlabel") : calls[i].result = "ok"

\* C1 as stated: an invocation that reaches label creation sends exactly
\* one of the two emails (the success email or the admin failure email,
\* never both), whatever the label call and the mail transport do; an
\* invocation that ends on the ignored-status path sends none.
C1_ExactlyOneEmailAsStated ==
    Finished =>
        /\ (NumLabelCalls > 0 => NumSuccessMails + NumAdminMails = 1)
        /\ (NumLabelCalls = 0 => NumSuccessMails + NumAdminMails = 0)

\* C1, amended: an invocation that reaches label creation issues each of
\* the two emails at most once and at least one of them; the admin failure
\* email follows the success email only when the success email's send
\* failed, so the two are never both delivered, and exactly one is sent
\* whenever no mail send fails; an invocation that does not reach label
\* creation (the ignored-status path included) sends none.
C1_OneEmailUnlessSendFails ==
    Finished =>
        /\ (NumLabelCalls > 0 =>
               /\ NumSuccessMails <= 1
               /\ NumAdminMails <= 1
               /\ NumSuccessMails + NumAdminMails >= 1
               /\ (NumSuccessMails + NumAdminMails = 2 => SuccessMailFailed)
               /\ ~(SuccessMailDelivered /\ NumAdminMails > 0)
               /\ (~SuccessMailFailed => NumSuccessMails + NumAdminMails = 1))
        /\ (NumLabelCalls = 0 => NumSuccessMails + NumAdminMails = 0)

\* the success email's send failed and the admin failure email reported it
C1_Witness ==
    /\ pc = "done"
    /\ res = 500
    /\ Len(calls) = 3
    /\ calls[1].result = "ok"
    /\ calls[2].subject = "Je verzendlabel"
    /\ calls[2].result = "failed"
    /\ calls[3].subject = "Fout bij order"
    /\ calls[3].result = "ok"

----------------------------------------------------------------------------
(* C2 *)

\* C2: a POST whose signature does not verify (wrong digest, absent
\* header, body that cannot be parsed or canonicalised) is answered 400
\* and issues no label request and no email.
C2_InvalidSignatureRejected ==
    (req.method = "POST" /\ ~ValidlySigned(req)) =>
        /\ calls = <<>>
        /\ (pc # "start" => pc = "done" /\ res = 400)

\* a paid notification signed under a key that is not the configured one
\* has been answered 400
C2_Witness ==
    /\ req.method = "POST"
    /\ req.body.kind = "object"
    /\ StatusIsPaid(req)
    /\ req.sig # NoHeader
    /\ ~ValidlySigned(req)
    /\ pc = "done"
    /\ res = 400
    /\ verifyCalls = 1

----------------------------------------------------------------------------
(* C3 *)

\* C3: a validly signed POST whose status (payload.status, else
\* payload.payment_status) is anything other than "finished" or
\* "confirmed", a missing status included, is answered 200 and issues no
\* label request and no email.
C3_OtherStatusIgnored ==
    (req.method = "POST" /\ ValidlySigned(req) /\ ~StatusIsPaid(req)) =>
        /\ calls = <<>>
        /\ (pc # "start" => pc = "done" /\ res = 200)

----------------------------------------------------------------------------
(* C4 *)

\* C4: when the label request throws or times out, the handler answers
\* 500, exactly one admin error email is sent, no success email is sent
\* and the label request is not retried.
C4_LabelFailure ==
    (Finished /\ NumLabelCalls > 0 /\ calls[1].result = "failed") =>
        /\ res = 500
        /\ NumAdminMails = 1
        /\ NumSuccessMails = 0
        /\ NumLabelCalls = 1

----------------------------------------------------------------------------
(* C5 *)

\* C5: whenever a downstream operation fails (the label request, the
\* success email, the admin email) the handler ends by answering 500; no
\* combination of failures leaves the invocation without a response.
C5_FailureAnswered500 ==
    (Finished /\ SomeCallFailed) => (pc = "done" /\ res = 500)

----------------------------------------------------------------------------
(* C6 *)

\* C6: a validly signed POST with status "finished" or "confirmed", whose
\* label request and mail send both succeed, issues exactly one label
\* request, then exactly one success email to the buyer (buyer_email, else
\* customer_email, else the administrator), no admin email, and is
\* answered 200; no mail is ever issued before the label request settled.
C6_SuccessPath ==
    /\ \A i \in 1..Len(calls) :
          calls[i].kind = "mail" =>
              i > 1 /\ calls[1].kind = "label" /\ calls[1].result # "pending"
    /\ (/\ req.method = "POST"
        /\ ValidlySigned(req)
        /\ StatusIsPaid(req)
        /\ Finished
        /\ ~SomeCallFailed) =>
           /\ Len(calls) = 2
           /\ calls[1] = [LabelCall EXCEPT !.result = "ok"]
           /\ calls[2].kind = "mail"
           /\ calls[2].subject = "Je verzendlabel"
           /\ calls[2].to = ExpectedRecipient(req)
           /\ calls[2].result = "ok"
           /\ NumAdminMails = 0
           /\ pc = "done"
           /\ res = 200

\* a notification carrying both addresses has been processed and the
\* success email went to the buyer
C6_Witness ==
    /\ pc = "done"
    /\ res = 200
    /\ StatusIsPaid(req)
    /\ Get(req.body, "buyer_email") = Str(BuyerAddr)
    /\ Get(req.body, "customer_email") = Str(CustomerAddr)
    /\ Len(calls) = 2
    /\ calls[2].to = Str(BuyerAddr)
    /\ calls[2].result = "ok"

----------------------------------------------------------------------------
(* C7 *)

LabelWithoutLink ==
    /\ NumLabelCalls > 0
    /\ calls[1].result = "ok"
    /\ seResp = NoData

FallbackMailSent ==
    /\ Len(calls) >= 2
    /\ calls[2].kind = "mail"
    /\ calls[2].subject = "Je verzendlabel"
    /\ calls[2].text = "Label is aangemaakt, maar link ontbreekt."
    /\ calls[2].url = ""

\* C7 as stated: when the label request succeeds without either URL shape,
\* the label URL is null, the success email with the fallback text is
\* sent, no admin error email is sent and the answer is 200.
C7_MissingLinkAsStated ==
    LabelWithoutLink =>
        /\ labelUrl = Null
        /\ FallbackMailSent
        /\ NumAdminMails = 0
        /\ (Finished => pc = "done" /\ res = 200)

\* C7, amended: when the label request succeeds without either URL shape,
\* the label URL is null and the success email with the fallback text is
\* sent; provided that send does not fail, no admin error email is sent
\* and the answer is 200.
C7_MissingLinkNotAnError ==
    LabelWithoutLink =>
        /\ labelUrl = Null
        /\ FallbackMailSent
        /\ (calls[2].result # "failed" =>
               /\ NumAdminMails = 0
               /\ (Finished => pc = "done" /\ res = 200))

\* a label without a link has been mailed and answered 200
C7_Witness ==
    /\ LabelWithoutLink
    /\ FallbackMailSent
    /\ calls[2].result = "ok"
    /\ pc = "done"
    /\ res = 200

----------------------------------------------------------------------------
(* C8 *)

\* C8: a request whose method is not POST is answered 405 at once: the
\* signature is not verified, no label request is issued and no email is
\* sent, whatever its headers and body.
C8_NonPostRejected ==
    req.method # "POST" =>
        /\ verifyCalls = 0
        /\ calls = <<>>
        /\ (pc # "start" => pc = "done" /\ res = 405)

\* a GET carrying a validly signed paid notification has been answered 405
C8_Witness ==
    /\ req.method = "GET"
    /\ ValidlySigned(req)
    /\ StatusIsPaid(req)
    /\ pc = "done"
    /\ res = 405

----------------------------------------------------------------------------
(* C9 *)

\* C9: two bodies with the same keys and values in a different key order
\* get the same canonical encoding, and verifyNowSignature accepts or
\* rejects both alike against the same header and secret.
C9_KeyOrderIndependent ==
    req.body.kind = "object" =>
        LET canonical == CanonicalJson(req.body)
            verdict == verifyNowSignature(JsonStringify(req.body), HeaderSig(req))
        IN  \A f \in Perms(Len(req.body.members)) :
                LET other == Reordered(req.body, f)
                IN  /\ CanonicalJson(other) = canonical
                    /\ verifyNowSignature(JsonStringify(other), HeaderSig(req))
                       = verdict

\* a body whose keys arrive out of ascending order has passed verification
C9_Witness ==
    /\ req.method = "POST"
    /\ req.body.kind = "object"
    /\ Len(req.body.members) >= 3
    /\ OutOfOrder(req.body)
    /\ JsonStringify(req.body) # CanonicalJson(req.body)
    /\ pc = "awaitLabel"

----------------------------------------------------------------------------
(* C10 *)

\* C10: for every positive amount, margin + labelAmount equals the amount
\* to 2-decimal precision: they differ by at most half a hundredth, and
\* not at all when the amount is a whole number of hundredths (100.00
\* gives 10.00 and 90.00).
C10_SplitInvariant ==
    (pc = "awaitLabel" /\ amount > 0) =>
        /\ Abs(10 * (margin + labelAmount) - amount) <= 5
        /\ (amount % 10 = 0 => 10 * (margin + labelAmount) = amount)
        /\ (amount = 100000 => margin = 1000 /\ labelAmount = 9000)

\* 100.00 has been split into 10.00 and 90.00
C10_Witness ==
    /\ pc = "awaitLabel"
    /\ amount = 100000
    /\ margin = 1000
    /\ labelAmount = 9000

====
